---- MODULE Spec2Model ----
(***************************************************************************)
(* Music Collection API (FastAPI + SQLAlchemy): registration, login, JWT   *)
(* bearer tokens, owner-scoped CRUD over artists / albums / playlists and  *)
(* the admin panel.  The storage tables, the tokens that clients hold, the *)
(* wall clock and the last HTTP response are the state; every handler of   *)
(* main.py is one action.  Time is counted in whole minutes.               *)
(* Response details written in Russian in the source are rendered in       *)
(* English here; distinct source strings stay distinct.                    *)
(***************************************************************************)
EXTENDS Integers, FiniteSets, Sequences, TLC

\* ---------------------------------------------------------------- bounds
MaxUserId == 2
MaxArtistId == 2
MaxAlbumId == 1
MaxPlaylistId == 1
MaxNow == 31
MaxInflight == 2

\* ------------------------------------------------------- program constants
ACCESS_TOKEN_EXPIRE_MINUTES == 30
SECRET_KEY == "server-secret"
ADMIN_NAME == "admin"

\* ------------------------------------------------------------ input sets
Usernames == {"admin", "alice", "bob"}
Emails == {"a@x", "b@x"}
Passwords == {"pw1", "pw2"}
ArtistPayloads == {[name |-> "n1", genre |-> "rock"], [name |-> "n2", genre |-> "jazz"]}
AlbumPayloads == {[title |-> "t1", release_year |-> 1999, artist_name |-> "n1"]}
PlaylistPayloads == {[name |-> "p1", description |-> "d1"]}
Genres == {"rock", "jazz"}
NoGenre == "none"
EmptyGenre == ""
NoSub == "none"

VARIABLES users, artists, albums, playlists, tokens, now, inflight, resp

storage == <<users, artists, albums, playlists>>
vars == <<users, artists, albums, playlists, tokens, now, inflight, resp>>

\* ------------------------------------------------------------ HTTP status
OK == 200
BadRequest == 400
Unauthorized == 401
Forbidden == 403
NotFound == 404
InternalError == 500

\* ------------------------------------------------------------- security.py
get_password_hash_constant(password) == [scheme |-> "bcrypt", secret |-> "secret"]

get_password_hash(password) == [scheme |-> "bcrypt", secret |-> password]

verify_password(plain_password, hashed_password) ==
    hashed_password.scheme = "bcrypt" /\ hashed_password.secret = plain_password

create_access_token(sub, t) ==
    [sub |-> sub, exp |-> t + ACCESS_TOKEN_EXPIRE_MINUTES, key |-> SECRET_KEY, wf |-> TRUE]

jwt_decode_ok_early(token, t) ==
    token.wf /\ token.key = SECRET_KEY /\ token.exp > t + 1

jwt_decode_ok_no_exp(token, t) == token.wf /\ token.key = SECRET_KEY

\* jose.jwt.decode: a JWTError for a malformed token, a signature made with
\* another key, or an expiry that lies before the current time (exp < now).
jwt_decode_ok(token, t) ==
    token.wf /\ token.key = SECRET_KEY /\ ~(token.exp < t)

\* Result.scalar_one_or_none(): None, the row, or MultipleResultsFound.
NoRow == [id |-> 0]
scalar_one_or_none(rows) ==
    IF rows = {} THEN [kind |-> "none", row |-> NoRow]
    ELSE IF Cardinality(rows) = 1 THEN [kind |-> "one", row |-> CHOOSE r \in rows : TRUE]
    ELSE [kind |-> "multiple", row |-> NoRow]

get_current_user(token) ==
    IF ~jwt_decode_ok(token, now) \/ token.sub = NoSub
    THEN [status |-> Unauthorized, detail |-> "Invalid token", user |-> NoRow]
    ELSE LET found == scalar_one_or_none({u \in users : u.username = token.sub})
         IN IF found.kind = "multiple"
            THEN [status |-> InternalError, detail |-> "MultipleResultsFound", user |-> NoRow]
            ELSE IF found.kind = "none"
            THEN [status |-> Unauthorized, detail |-> "User not found", user |-> NoRow]
            ELSE [status |-> OK, detail |-> "", user |-> found.row]

get_current_admin_user_by_name(token) ==
    LET auth == get_current_user(token)
    IN IF auth.status # OK THEN auth
       ELSE IF auth.user.username # ADMIN_NAME
            THEN [status |-> Forbidden, detail |-> "insufficient rights", user |-> NoRow]
            ELSE auth

get_current_admin_user_no_check(token) == get_current_user(token)

get_current_admin_user(token) ==
    LET auth == get_current_user(token)
    IN IF auth.status # OK THEN auth
       ELSE IF ~auth.user.is_admin
            THEN [status |-> Forbidden, detail |-> "insufficient rights", user |-> NoRow]
            ELSE auth

\* --------------------------------------------------------------- models.py
\* Integer primary keys are assigned by the database: any key not in use.
FreeIds(table, maxId) == {i \in 1..maxId : \A r \in table : r.id # i}

UniqueViolation_off(username, email) == FALSE

\* users.username and users.email carry unique=True.
UniqueViolation(username, email) ==
    \E u \in users : u.username = username \/ u.email = email

Cascade_off(table, user_id) == table

\* relationship(..., cascade="all, delete-orphan") on User.
Cascade(table, user_id) == {r \in table : r.owner_id # user_id}

\* select(Model).filter(Model.id == id, Model.owner_id == current_user.id)
OwnerScoped_any_owner(table, id, owner_id) == {r \in table : r.id = id}

OwnerScoped(table, id, owner_id) == {r \in table : r.id = id /\ r.owner_id = owner_id}

\* tokens a client can present: the issued ones and ones the server never made
ForgedTokens ==
    { [sub |-> "admin", exp |-> MaxNow + 1, key |-> "other-key", wf |-> TRUE],
      [sub |-> NoSub, exp |-> MaxNow + 1, key |-> SECRET_KEY, wf |-> TRUE],
      [sub |-> "admin", exp |-> MaxNow + 1, key |-> SECRET_KEY, wf |-> FALSE] }

Presentable == tokens \cup ForgedTokens

Respond(op, status, detail, args, body) ==
    resp' = [op |-> op, status |-> status, detail |-> detail, args |-> args, body |-> body]

\* resp holds the response of the step just taken; a step that answers no
\* request (the clock, a handler suspended at an await) leaves Idle there.
Idle == [op |-> "idle", status |-> OK, detail |-> "", args |-> [none |-> 0], body |-> {}]

Init ==
    /\ users = {}
    /\ artists = {}
    /\ albums = {}
    /\ playlists = {}
    /\ tokens = {}
    /\ now = 0
    /\ inflight = {}
    /\ resp = Idle

\* ------------------------------------------------------- main.py: /register
register_lookup(username, email) ==
    scalar_one_or_none({u \in users : u.username = username \/ u.email = email})

PublicUser(u) == [id |-> u.id, username |-> u.username, email |-> u.email, is_admin |-> u.is_admin]

NewUser_first_admin_only(id, username, email, password) ==
    [id |-> id, username |-> username, email |-> email,
     hashed_password |-> get_password_hash(password),
     is_admin |-> (username = ADMIN_NAME /\ \A u \in users : ~u.is_admin)]

NewUser(id, username, email, password) ==
    [id |-> id, username |-> username, email |-> email,
     hashed_password |-> get_password_hash(password),
     is_admin |-> (username = ADMIN_NAME)]

\* db.add + db.commit: IntegrityError when a unique column collides.
register_commit(username, email, password, args) ==
    IF UniqueViolation(username, email)
    THEN /\ Respond("register", InternalError, "IntegrityError", args, {})
         /\ UNCHANGED users
    ELSE \E id \in FreeIds(users, MaxUserId) :
            /\ users' = users \cup {NewUser(id, username, email, password)}
            /\ Respond("register", OK, "", args,
                       {PublicUser(NewUser(id, username, email, password))})

\* lines 38-43: what the lookup's result raises, if anything
register_rejection(existing, username) ==
    IF existing.kind = "multiple"
    THEN [status |-> InternalError, detail |-> "MultipleResultsFound"]
    ELSE IF existing.kind = "one"
    THEN IF existing.row.username = username
         THEN [status |-> BadRequest, detail |-> "Username already registered"]
         ELSE [status |-> BadRequest, detail |-> "Email already registered"]
    ELSE [status |-> OK, detail |-> ""]

register_user(username, email, password) ==
    LET args == [username |-> username, email |-> email, password |-> password]
        rejection == register_rejection(register_lookup(username, email), username)
    IN /\ IF rejection.status # OK
          THEN /\ Respond("register", rejection.status, rejection.detail, args, {})
               /\ UNCHANGED users
          ELSE register_commit(username, email, password, args)
       /\ UNCHANGED <<artists, albums, playlists, tokens, now, inflight>>

\* The same handler as two steps: it is suspended between the lookup
\* (await db.execute) and the insert (await db.commit), and other requests run.
register_begin(rid, username, email, password) ==
    LET args == [username |-> username, email |-> email, password |-> password]
        rejection == register_rejection(register_lookup(username, email), username)
    IN /\ \A r \in inflight : r.rid # rid
       /\ IF rejection.status # OK
          THEN /\ Respond("register", rejection.status, rejection.detail, args, {})
               /\ UNCHANGED inflight
          ELSE /\ inflight' = inflight \cup {[rid |-> rid, username |-> username,
                                              email |-> email, password |-> password]}
               /\ resp' = Idle
       /\ UNCHANGED <<users, artists, albums, playlists, tokens, now>>

register_finish(r) ==
    /\ r \in inflight
    /\ inflight' = inflight \ {r}
    /\ register_commit(r.username, r.email, r.password,
                       [username |-> r.username, email |-> r.email, password |-> r.password])
    /\ UNCHANGED <<artists, albums, playlists, tokens, now>>

\* ---------------------------------------------------------- main.py: /login
login_failure_detail_distinct(found) ==
    IF found.kind = "none" THEN "User not found" ELSE "Wrong password"

\* lines 75-79: one raise serves the unknown user and the wrong password
login_failure_detail(found) == "Wrong login or password"

login(username, password) ==
    LET args == [username |-> username, password |-> password]
        found == scalar_one_or_none({u \in users : u.username = username})
    IN /\ IF found.kind = "multiple"
          THEN /\ Respond("login", InternalError, "MultipleResultsFound", args, {})
               /\ UNCHANGED tokens
          ELSE IF found.kind = "none" \/ ~verify_password(password, found.row.hashed_password)
          THEN /\ Respond("login", Unauthorized, login_failure_detail(found), args, {})
               /\ UNCHANGED tokens
          ELSE LET access_token == create_access_token(found.row.username, now)
               IN /\ tokens' = tokens \cup {access_token}
                  /\ Respond("login", OK, "bearer", args, {access_token})
       /\ UNCHANGED <<users, artists, albums, playlists, now, inflight>>

\* the wall clock
Tick(d) ==
    /\ now + d <= MaxNow
    /\ now' = now + d
    /\ resp' = Idle
    /\ UNCHANGED <<users, artists, albums, playlists, tokens, inflight>>

\* a request stopped by its dependency: nothing but the response changes
Denied(op, auth, args) ==
    /\ Respond(op, auth.status, auth.detail, args, {})
    /\ UNCHANGED <<users, artists, albums, playlists, tokens, now, inflight>>

\* --------------------------------------------------------- main.py: artists
create_artist_owner_mixup(token, artist) ==
    LET auth == get_current_user(token)
        args == [token |-> token, payload |-> artist]
    IN IF auth.status # OK THEN Denied("create_artist", auth, args)
       ELSE \E id \in FreeIds(artists, MaxArtistId) :
              LET db_artist == [id |-> id, name |-> artist.name, genre |-> artist.genre,
                                owner_id |-> id]
              IN /\ artists' = artists \cup {db_artist}
                 /\ Respond("create_artist", OK, "", args, {db_artist})
                 /\ UNCHANGED <<users, albums, playlists, tokens, now, inflight>>

create_artist(token, artist) ==
    LET auth == get_current_user(token)
        args == [token |-> token, payload |-> artist]
    IN IF auth.status # OK THEN Denied("create_artist", auth, args)
       ELSE \E id \in FreeIds(artists, MaxArtistId) :
              LET db_artist == [id |-> id, name |-> artist.name, genre |-> artist.genre,
                                owner_id |-> auth.user.id]
              IN /\ artists' = artists \cup {db_artist}
                 /\ Respond("create_artist", OK, "", args, {db_artist})
                 /\ UNCHANGED <<users, albums, playlists, tokens, now, inflight>>

\* line 125, "if genre:": None and the empty string both count as no filter
Truthy(genre) == genre # NoGenre /\ genre # EmptyGenre

get_artists(token, genre) ==
    LET auth == get_current_user(token)
        args == [token |-> token, genre |-> genre]
    IN IF auth.status # OK THEN Denied("get_artists", auth, args)
       ELSE LET owned == {a \in artists : a.owner_id = auth.user.id}
                rows == IF Truthy(genre) THEN {a \in owned : a.genre = genre} ELSE owned
            IN /\ Respond("get_artists", OK, "", args, rows)
               /\ UNCHANGED <<users, artists, albums, playlists, tokens, now, inflight>>

get_artist(token, artist_id) ==
    LET auth == get_current_user(token)
        args == [token |-> token, id |-> artist_id]
    IN IF auth.status # OK THEN Denied("get_artist", auth, args)
       ELSE LET found == scalar_one_or_none(
                    OwnerScoped(artists, artist_id, auth.user.id))
            IN /\ IF found.kind = "none"
                  THEN Respond("get_artist", NotFound, "Artist not found", args, {})
                  ELSE Respond("get_artist", OK, "", args, {found.row})
               /\ UNCHANGED <<users, artists, albums, playlists, tokens, now, inflight>>

update_artist(token, artist_id, artist) ==
    LET auth == get_current_user(token)
        args == [token |-> token, id |-> artist_id, payload |-> artist]
    IN IF auth.status # OK THEN Denied("update_artist", auth, args)
       ELSE LET found == scalar_one_or_none(
                    OwnerScoped(artists, artist_id, auth.user.id))
            IN /\ IF found.kind = "none"
                  THEN /\ Respond("update_artist", NotFound, "Artist not found", args, {})
                       /\ UNCHANGED artists
                  ELSE LET db_artist == [found.row EXCEPT !.name = artist.name,
                                                          !.genre = artist.genre]
                       IN /\ artists' = (artists \ {found.row}) \cup {db_artist}
                          /\ Respond("update_artist", OK, "", args, {db_artist})
               /\ UNCHANGED <<users, albums, playlists, tokens, now, inflight>>

delete_artist(token, artist_id) ==
    LET auth == get_current_user(token)
        args == [token |-> token, id |-> artist_id]
    IN IF auth.status # OK THEN Denied("delete_artist", auth, args)
       ELSE LET found == scalar_one_or_none(
                    OwnerScoped(artists, artist_id, auth.user.id))
            IN /\ IF found.kind = "none"
                  THEN /\ Respond("delete_artist", NotFound, "Artist not found", args, {})
                       /\ UNCHANGED artists
                  ELSE /\ artists' = artists \ {found.row}
                       /\ Respond("delete_artist", OK, "Artist deleted successfully", args, {})
               /\ UNCHANGED <<users, albums, playlists, tokens, now, inflight>>

\* ---------------------------------------------------------- main.py: albums
create_album(token, album) ==
    LET auth == get_current_user(token)
        args == [token |-> token, payload |-> album]
    IN IF auth.status # OK THEN Denied("create_album", auth, args)
       ELSE \E id \in FreeIds(albums, MaxAlbumId) :
              LET db_album == [id |-> id, title |-> album.title,
                               release_year |-> album.release_year,
                               artist_name |-> album.artist_name,
                               owner_id |-> auth.user.id]
              IN /\ albums' = albums \cup {db_album}
                 /\ Respond("create_album", OK, "", args, {db_album})
                 /\ UNCHANGED <<users, artists, playlists, tokens, now, inflight>>

get_albums(token) ==
    LET auth == get_current_user(token)
        args == [token |-> token]
    IN IF auth.status # OK THEN Denied("get_albums", auth, args)
       ELSE /\ Respond("get_albums", OK, "", args,
                       {a \in albums : a.owner_id = auth.user.id})
            /\ UNCHANGED <<users, artists, albums, playlists, tokens, now, inflight>>

delete_album(token, album_id) ==
    LET auth == get_current_user(token)
        args == [token |-> token, id |-> album_id]
    IN IF auth.status # OK THEN Denied("delete_album", auth, args)
       ELSE LET found == scalar_one_or_none(
                    OwnerScoped(albums, album_id, auth.user.id))
            IN /\ IF found.kind = "none"
                  THEN /\ Respond("delete_album", NotFound, "Album not found", args, {})
                       /\ UNCHANGED albums
                  ELSE /\ albums' = albums \ {found.row}
                       /\ Respond("delete_album", OK, "Album deleted successfully", args, {})
               /\ UNCHANGED <<users, artists, playlists, tokens, now, inflight>>

\* ------------------------------------------------------- main.py: playlists
create_playlist(token, playlist) ==
    LET auth == get_current_user(token)
        args == [token |-> token, payload |-> playlist]
    IN IF auth.status # OK THEN Denied("create_playlist", auth, args)
       ELSE \E id \in FreeIds(playlists, MaxPlaylistId) :
              LET db_playlist == [id |-> id, name |-> playlist.name,
                                  description |-> playlist.description,
                                  owner_id |-> auth.user.id]
              IN /\ playlists' = playlists \cup {db_playlist}
                 /\ Respond("create_playlist", OK, "", args, {db_playlist})
                 /\ UNCHANGED <<users, artists, albums, tokens, now, inflight>>

get_playlists(token) ==
    LET auth == get_current_user(token)
        args == [token |-> token]
    IN IF auth.status # OK THEN Denied("get_playlists", auth, args)
       ELSE /\ Respond("get_playlists", OK, "", args,
                       {p \in playlists : p.owner_id = auth.user.id})
            /\ UNCHANGED <<users, artists, albums, playlists, tokens, now, inflight>>

delete_playlist(token, playlist_id) ==
    LET auth == get_current_user(token)
        args == [token |-> token, id |-> playlist_id]
    IN IF auth.status # OK THEN Denied("delete_playlist", auth, args)
       ELSE LET found == scalar_one_or_none(
                    OwnerScoped(playlists, playlist_id, auth.user.id))
            IN /\ IF found.kind = "none"
                  THEN /\ Respond("delete_playlist", NotFound, "Playlist not found", args, {})
                       /\ UNCHANGED playlists
                  ELSE /\ playlists' = playlists \ {found.row}
                       /\ Respond("delete_playlist", OK, "Playlist deleted successfully", args, {})
               /\ UNCHANGED <<users, artists, albums, tokens, now, inflight>>

\* ----------------------------------------------------- main.py: admin panel
get_all_users(token) ==
    LET auth == get_current_admin_user(token)
        args == [token |-> token]
    IN IF auth.status # OK THEN Denied("get_all_users", auth, args)
       ELSE /\ Respond("get_all_users", OK, "", args, {PublicUser(u) : u \in users})
            /\ UNCHANGED <<users, artists, albums, playlists, tokens, now, inflight>>

delete_user(token, user_id) ==
    LET auth == get_current_admin_user(token)
        args == [token |-> token, id |-> user_id]
    IN IF auth.status # OK THEN Denied("delete_user", auth, args)
       ELSE LET found == scalar_one_or_none({u \in users : u.id = user_id})
            IN /\ IF found.kind = "none"
                  THEN /\ Respond("delete_user", NotFound, "User not found", args, {})
                       /\ UNCHANGED <<users, artists, albums, playlists>>
                  ELSE /\ users' = users \ {found.row}
                       /\ artists' = Cascade(artists, found.row.id)
                       /\ albums' = Cascade(albums, found.row.id)
                       /\ playlists' = Cascade(playlists, found.row.id)
                       /\ Respond("delete_user", OK, "User deleted", args, {})
               /\ UNCHANGED <<tokens, now, inflight>>

get_all_artists(token) ==
    LET auth == get_current_admin_user(token)
        args == [token |-> token]
    IN IF auth.status # OK THEN Denied("get_all_artists", auth, args)
       ELSE /\ Respond("get_all_artists", OK, "", args, artists)
            /\ UNCHANGED <<users, artists, albums, playlists, tokens, now, inflight>>

admin_delete_artist_owner_scoped(token, artist_id) ==
    LET auth == get_current_admin_user(token)
        args == [token |-> token, id |-> artist_id]
    IN IF auth.status # OK THEN Denied("admin_delete_artist", auth, args)
       ELSE LET found == scalar_one_or_none(OwnerScoped(artists, artist_id, auth.user.id))
            IN /\ IF found.kind = "none"
                  THEN /\ Respond("admin_delete_artist", NotFound, "Artist not found", args, {})
                       /\ UNCHANGED artists
                  ELSE /\ artists' = artists \ {found.row}
                       /\ Respond("admin_delete_artist", OK, "Artist deleted", args, {})
               /\ UNCHANGED <<users, albums, playlists, tokens, now, inflight>>

admin_delete_artist(token, artist_id) ==
    LET auth == get_current_admin_user(token)
        args == [token |-> token, id |-> artist_id]
    IN IF auth.status # OK THEN Denied("admin_delete_artist", auth, args)
       ELSE LET found == scalar_one_or_none({a \in artists : a.id = artist_id})
            IN /\ IF found.kind = "none"
                  THEN /\ Respond("admin_delete_artist", NotFound, "Artist not found", args, {})
                       /\ UNCHANGED artists
                  ELSE /\ artists' = artists \ {found.row}
                       /\ Respond("admin_delete_artist", OK, "Artist deleted", args, {})
               /\ UNCHANGED <<users, albums, playlists, tokens, now, inflight>>

promote_to_admin_idempotent(token, user_id) ==
    LET auth == get_current_admin_user(token)
        args == [token |-> token, id |-> user_id]
    IN IF auth.status # OK THEN Denied("promote_to_admin", auth, args)
       ELSE LET found == scalar_one_or_none({u \in users : u.id = user_id})
            IN /\ IF found.kind = "none"
                  THEN /\ Respond("promote_to_admin", NotFound, "User not found", args, {})
                       /\ UNCHANGED users
                  ELSE /\ users' = (users \ {found.row}) \cup {[found.row EXCEPT !.is_admin = TRUE]}
                       /\ Respond("promote_to_admin", OK, "now admin", args, {})
               /\ UNCHANGED <<artists, albums, playlists, tokens, now, inflight>>

promote_to_admin(token, user_id) ==
    LET auth == get_current_admin_user(token)
        args == [token |-> token, id |-> user_id]
    IN IF auth.status # OK THEN Denied("promote_to_admin", auth, args)
       ELSE LET found == scalar_one_or_none({u \in users : u.id = user_id})
            IN /\ IF found.kind = "none"
                  THEN /\ Respond("promote_to_admin", NotFound, "User not found", args, {})
                       /\ UNCHANGED users
                  ELSE IF found.row.is_admin
                  THEN /\ Respond("promote_to_admin", BadRequest, "User is already admin", args, {})
                       /\ UNCHANGED users
                  ELSE /\ users' = (users \ {found.row}) \cup {[found.row EXCEPT !.is_admin = TRUE]}
                       /\ Respond("promote_to_admin", OK, "now admin", args, {})
               /\ UNCHANGED <<artists, albums, playlists, tokens, now, inflight>>

demote_from_admin_not_self(token, user_id) ==
    LET auth == get_current_admin_user(token)
        args == [token |-> token, id |-> user_id]
    IN IF auth.status # OK THEN Denied("demote_from_admin", auth, args)
       ELSE LET found == scalar_one_or_none({u \in users : u.id = user_id})
            IN /\ IF found.kind = "none"
                  THEN /\ Respond("demote_from_admin", NotFound, "User not found", args, {})
                       /\ UNCHANGED users
                  ELSE IF ~found.row.is_admin \/ found.row.id = auth.user.id
                  THEN /\ Respond("demote_from_admin", BadRequest, "User is not admin anyway", args, {})
                       /\ UNCHANGED users
                  ELSE /\ users' = (users \ {found.row}) \cup {[found.row EXCEPT !.is_admin = FALSE]}
                       /\ Respond("demote_from_admin", OK, "admin rights removed", args, {})
               /\ UNCHANGED <<artists, albums, playlists, tokens, now, inflight>>

demote_from_admin(token, user_id) ==
    LET auth == get_current_admin_user(token)
        args == [token |-> token, id |-> user_id]
    IN IF auth.status # OK THEN Denied("demote_from_admin", auth, args)
       ELSE LET found == scalar_one_or_none({u \in users : u.id = user_id})
            IN /\ IF found.kind = "none"
                  THEN /\ Respond("demote_from_admin", NotFound, "User not found", args, {})
                       /\ UNCHANGED users
                  ELSE IF ~found.row.is_admin
                  THEN /\ Respond("demote_from_admin", BadRequest, "User is not admin anyway", args, {})
                       /\ UNCHANGED users
                  ELSE /\ users' = (users \ {found.row}) \cup {[found.row EXCEPT !.is_admin = FALSE]}
                       /\ Respond("demote_from_admin", OK, "admin rights removed", args, {})
               /\ UNCHANGED <<artists, albums, playlists, tokens, now, inflight>>

\* ------------------------------------------- main.py: requests at an await
\* The owner_id columns are ForeignKey("users.id"); the engine refuses a
\* commit that leaves a row whose owner_id no stored user has.
ForeignKeyViolation_off(us, rows) == FALSE

ForeignKeyViolation(us, rows) == \E r \in rows : \A u \in us : u.id # r.owner_id

\* create_*: suspended between the resolution of the caller
\* (get_current_user's await db.execute) and the insert (await db.commit).
create_begin(op, rid, token, payload) ==
    LET auth == get_current_user(token)
        args == [token |-> token, payload |-> payload]
    IN /\ \A r \in inflight : r.rid # rid
       /\ IF auth.status # OK
          THEN /\ Respond(op, auth.status, auth.detail, args, {})
               /\ UNCHANGED inflight
          ELSE /\ inflight' = inflight \cup {[rid |-> rid, op |-> op, args |-> args,
                                              owner_id |-> auth.user.id]}
               /\ resp' = Idle
       /\ UNCHANGED <<users, artists, albums, playlists, tokens, now>>

create_artist_begin(rid, token, artist) == create_begin("create_artist", rid, token, artist)
create_album_begin(rid, token, album) == create_begin("create_album", rid, token, album)
create_playlist_begin(rid, token, playlist) == create_begin("create_playlist", rid, token, playlist)

create_artist_finish(r) ==
    /\ r \in inflight /\ r.op = "create_artist"
    /\ inflight' = inflight \ {r}
    /\ \E id \in FreeIds(artists, MaxArtistId) :
          LET db_artist == [id |-> id, name |-> r.args.payload.name,
                            genre |-> r.args.payload.genre, owner_id |-> r.owner_id]
          IN IF ForeignKeyViolation(users, {db_artist})
             THEN /\ Respond("create_artist", InternalError, "IntegrityError", r.args, {})
                  /\ UNCHANGED artists
             ELSE /\ artists' = artists \cup {db_artist}
                  /\ Respond("create_artist", OK, "", r.args, {db_artist})
    /\ UNCHANGED <<users, albums, playlists, tokens, now>>

create_album_finish(r) ==
    /\ r \in inflight /\ r.op = "create_album"
    /\ inflight' = inflight \ {r}
    /\ \E id \in FreeIds(albums, MaxAlbumId) :
          LET db_album == [id |-> id, title |-> r.args.payload.title,
                           release_year |-> r.args.payload.release_year,
                           artist_name |-> r.args.payload.artist_name,
                           owner_id |-> r.owner_id]
          IN IF ForeignKeyViolation(users, {db_album})
             THEN /\ Respond("create_album", InternalError, "IntegrityError", r.args, {})
                  /\ UNCHANGED albums
             ELSE /\ albums' = albums \cup {db_album}
                  /\ Respond("create_album", OK, "", r.args, {db_album})
    /\ UNCHANGED <<users, artists, playlists, tokens, now>>

create_playlist_finish(r) ==
    /\ r \in inflight /\ r.op = "create_playlist"
    /\ inflight' = inflight \ {r}
    /\ \E id \in FreeIds(playlists, MaxPlaylistId) :
          LET db_playlist == [id |-> id, name |-> r.args.payload.name,
                              description |-> r.args.payload.description,
                              owner_id |-> r.owner_id]
          IN IF ForeignKeyViolation(users, {db_playlist})
             THEN /\ Respond("create_playlist", InternalError, "IntegrityError", r.args, {})
                  /\ UNCHANGED playlists
             ELSE /\ playlists' = playlists \cup {db_playlist}
                  /\ Respond("create_playlist", OK, "", r.args, {db_playlist})
    /\ UNCHANGED <<users, artists, albums, tokens, now>>

\* delete_user: suspended between await db.delete(user), which loads the
\* user's artists, albums and playlists for the cascade, and await db.commit.
delete_user_begin(rid, token, user_id) ==
    LET auth == get_current_admin_user(token)
        args == [token |-> token, id |-> user_id]
        found == scalar_one_or_none({u \in users : u.id = user_id})
    IN /\ \A r \in inflight : r.rid # rid
       /\ IF auth.status # OK
          THEN /\ Respond("delete_user", auth.status, auth.detail, args, {})
               /\ UNCHANGED inflight
          ELSE IF found.kind = "none"
          THEN /\ Respond("delete_user", NotFound, "User not found", args, {})
               /\ UNCHANGED inflight
          ELSE /\ inflight' = inflight \cup
                     {[rid |-> rid, op |-> "delete_user", args |-> args,
                       artists |-> {a.id : a \in artists \ Cascade(artists, user_id)},
                       albums |-> {a.id : a \in albums \ Cascade(albums, user_id)},
                       playlists |-> {p.id : p \in playlists \ Cascade(playlists, user_id)}]}
               /\ resp' = Idle
       /\ UNCHANGED <<users, artists, albums, playlists, tokens, now>>

\* the flush deletes the loaded rows and the user by primary key
delete_user_finish(r) ==
    LET us == {u \in users : u.id # r.args.id}
        ar == {a \in artists : a.id \notin r.artists}
        al == {a \in albums : a.id \notin r.albums}
        pl == {p \in playlists : p.id \notin r.playlists}
    IN /\ r \in inflight /\ r.op = "delete_user"
       /\ inflight' = inflight \ {r}
       /\ IF ForeignKeyViolation(us, ar \cup al \cup pl)
          THEN /\ Respond("delete_user", InternalError, "IntegrityError", r.args, {})
               /\ UNCHANGED <<users, artists, albums, playlists>>
          ELSE /\ users' = us
               /\ artists' = ar
               /\ albums' = al
               /\ playlists' = pl
               /\ Respond("delete_user", OK, "User deleted", r.args, {})
       /\ UNCHANGED <<tokens, now>>

\* ---------------------------------------------------------------- requests
\* Each request draws its inputs from the sets it is given: T the tokens the
\* client may present, A the accounts, P the payloads.
AllAccounts == Usernames \X Emails \X Passwords
TwoAccounts == {<<"admin", "a@x", "pw1">>, <<"alice", "b@x", "pw1">>}

Register(A) == \E acc \in A : register_user(acc[1], acc[2], acc[3])
Login(U, P) == \E u \in U, p \in P : login(u, p)
Clock(D) == \E d \in D : Tick(d)
CreateArtist(T, P) == \E t \in T, a \in P : create_artist(t, a)
GetArtists(T) == \E t \in T, g \in Genres \cup {NoGenre, EmptyGenre} : get_artists(t, g)
GetArtist(T) == \E t \in T, i \in 1..MaxArtistId : get_artist(t, i)
UpdateArtist(T, P) == \E t \in T, i \in 1..MaxArtistId, a \in P : update_artist(t, i, a)
DeleteArtist(T) == \E t \in T, i \in 1..MaxArtistId : delete_artist(t, i)
CreateAlbum(T) == \E t \in T, a \in AlbumPayloads : create_album(t, a)
GetAlbums(T) == \E t \in T : get_albums(t)
DeleteAlbum(T) == \E t \in T, i \in 1..MaxAlbumId : delete_album(t, i)
CreatePlaylist(T) == \E t \in T, p \in PlaylistPayloads : create_playlist(t, p)
GetPlaylists(T) == \E t \in T : get_playlists(t)
DeletePlaylist(T) == \E t \in T, i \in 1..MaxPlaylistId : delete_playlist(t, i)
GetAllUsers(T) == \E t \in T : get_all_users(t)
DeleteUser(T) == \E t \in T, i \in 1..MaxUserId : delete_user(t, i)
GetAllArtists(T) == \E t \in T : get_all_artists(t)
AdminDeleteArtist(T) == \E t \in T, i \in 1..MaxArtistId : admin_delete_artist(t, i)
Promote(T) == \E t \in T, i \in 1..MaxUserId : promote_to_admin(t, i)
Demote(T) == \E t \in T, i \in 1..MaxUserId : demote_from_admin(t, i)

\* ---------------------------------------------------------- specifications
\* The owner-scoped API: two accounts working on their collections.
Next ==
    \/ Register(TwoAccounts) \/ Login({"admin", "alice"}, {"pw1"})
    \/ CreateArtist(tokens, ArtistPayloads) \/ GetArtists(tokens) \/ GetArtist(tokens)
    \/ UpdateArtist(tokens, ArtistPayloads) \/ DeleteArtist(tokens)
    \/ CreateAlbum(tokens) \/ GetAlbums(tokens) \/ DeleteAlbum(tokens)
    \/ CreatePlaylist(tokens) \/ GetPlaylists(tokens) \/ DeletePlaylist(tokens)

Spec == Init /\ [][Next]_vars

OnePayload == {[name |-> "n1", genre |-> "rock"]}

\* The admin panel over the accounts and their artists.
NextAdmin ==
    \/ Register(TwoAccounts) \/ Login({"admin", "alice"}, {"pw1"})
    \/ CreateArtist(tokens, OnePayload)
    \/ GetAllUsers(tokens) \/ DeleteUser(tokens) \/ GetAllArtists(tokens)
    \/ AdminDeleteArtist(tokens) \/ Promote(tokens) \/ Demote(tokens)

SpecAdmin == Init /\ [][NextAdmin]_vars

\* Account lifecycle with every registration and login input.
NextAccounts ==
    \/ Register(AllAccounts) \/ Login(Usernames, Passwords)
    \/ GetAllUsers(tokens) \/ DeleteUser(tokens) \/ Promote(tokens) \/ Demote(tokens)

SpecAccounts == Init /\ [][NextAccounts]_vars

\* Every protected route, called with tokens the server must turn away:
\* forged ones, issued ones past their expiry, issued ones whose user is gone.
\* Accounts are built up, and users deleted, with good tokens.
Stale(t) == t \in ForgedTokens \/ t.exp < now \/ \A u \in users : u.username # t.sub
StaleTokens == {t \in Presentable : Stale(t)}

NextAuth ==
    \/ Register(TwoAccounts) \/ Login({"admin", "alice"}, {"pw1"})
    \/ Clock({ACCESS_TOKEN_EXPIRE_MINUTES + 1})
    \/ CreateArtist(StaleTokens, OnePayload) \/ DeleteUser(Presentable)
    \/ CreateAlbum(StaleTokens) \/ CreatePlaylist(StaleTokens)
    \/ GetArtists(StaleTokens) \/ GetArtist(StaleTokens)
    \/ UpdateArtist(StaleTokens, OnePayload) \/ DeleteArtist(StaleTokens)
    \/ GetAlbums(StaleTokens) \/ DeleteAlbum(StaleTokens)
    \/ GetPlaylists(StaleTokens) \/ DeletePlaylist(StaleTokens)
    \/ GetAllUsers(StaleTokens) \/ GetAllArtists(StaleTokens)
    \/ AdminDeleteArtist(StaleTokens) \/ Promote(StaleTokens) \/ Demote(StaleTokens)

SpecAuth == Init /\ [][NextAuth]_vars

\* Tokens against the clock: the clock moves to just before, exactly at and
\* just after the lifetime of a token.
ClockSteps ==
    {ACCESS_TOKEN_EXPIRE_MINUTES - 1, ACCESS_TOKEN_EXPIRE_MINUTES, ACCESS_TOKEN_EXPIRE_MINUTES + 1}

NextClock ==
    \/ Register(TwoAccounts) \/ Login({"admin", "alice"}, {"pw1"})
    \/ Clock(ClockSteps)
    \/ GetArtists(tokens) \/ GetAlbums(tokens) \/ GetPlaylists(tokens) \/ GetAllUsers(tokens)

SpecClock == Init /\ [][NextClock]_vars

\* Registration requests in flight together with the admin's account changes.
RaceAccounts == {"admin", "alice"} \X Emails \X {"pw1"}

RegisterBegin(A) ==
    \E rid \in 1..MaxInflight, acc \in A : register_begin(rid, acc[1], acc[2], acc[3])
RegisterFinish == \E r \in inflight : register_finish(r)

NextRace ==
    \/ RegisterBegin(RaceAccounts) \/ RegisterFinish
    \/ Login({"admin", "alice"}, {"pw1"})
    \/ DeleteUser(tokens) \/ Promote(tokens) \/ Demote(tokens)

SpecRace == Init /\ [][NextRace]_vars

\* The whole API: both accounts, every route, with the tokens login issued.
NextApi ==
    \/ Register(TwoAccounts) \/ Login({"admin", "alice"}, {"pw1"})
    \/ CreateArtist(tokens, OnePayload) \/ GetArtists(tokens) \/ GetArtist(tokens)
    \/ UpdateArtist(tokens, ArtistPayloads) \/ DeleteArtist(tokens)
    \/ CreateAlbum(tokens) \/ GetAlbums(tokens) \/ DeleteAlbum(tokens)
    \/ CreatePlaylist(tokens) \/ GetPlaylists(tokens) \/ DeletePlaylist(tokens)
    \/ GetAllUsers(tokens) \/ DeleteUser(tokens) \/ GetAllArtists(tokens)
    \/ AdminDeleteArtist(tokens) \/ Promote(tokens) \/ Demote(tokens)

SpecApi == Init /\ [][NextApi]_vars

\* Sessions against account changes: tokens issued at the start and shortly
\* before the first ones expire, accounts promoted, demoted, deleted and
\* registered again.  The second registration of a name comes with another
\* password, and logins use the first password only.
SessionAccounts ==
    {<<"admin", "a@x", "pw1">>, <<"alice", "b@x", "pw1">>, <<"admin", "a@x", "pw2">>}

NextSession ==
    \/ Register(SessionAccounts) \/ Login({"admin", "alice"}, {"pw1"})
    \/ Clock({ACCESS_TOKEN_EXPIRE_MINUTES - 1})
    \/ Promote(tokens) \/ Demote(tokens) \/ DeleteUser(tokens)
    \/ GetAllUsers(tokens) \/ CreatePlaylist(tokens) \/ GetPlaylists(tokens)

SpecSession == Init /\ [][NextSession]_vars

\* Creations and deletions of users in flight together.
CreateArtistBegin(T, P) ==
    \E rid \in 1..MaxInflight, t \in T, a \in P : create_artist_begin(rid, t, a)
CreateAlbumBegin(T) ==
    \E rid \in 1..MaxInflight, t \in T, a \in AlbumPayloads : create_album_begin(rid, t, a)
CreatePlaylistBegin(T) ==
    \E rid \in 1..MaxInflight, t \in T, p \in PlaylistPayloads : create_playlist_begin(rid, t, p)
CreateArtistFinish == \E r \in inflight : create_artist_finish(r)
CreateAlbumFinish == \E r \in inflight : create_album_finish(r)
CreatePlaylistFinish == \E r \in inflight : create_playlist_finish(r)
DeleteUserBegin(T) ==
    \E rid \in 1..MaxInflight, t \in T, i \in 1..MaxUserId : delete_user_begin(rid, t, i)
DeleteUserFinish == \E r \in inflight : delete_user_finish(r)

NextInterleaved ==
    \/ Register(TwoAccounts) \/ Login({"admin", "alice"}, {"pw1"})
    \/ CreateArtistBegin(tokens, OnePayload) \/ CreateArtistFinish
    \/ CreateAlbumBegin(tokens) \/ CreateAlbumFinish
    \/ CreatePlaylistBegin(tokens) \/ CreatePlaylistFinish
    \/ DeleteUserBegin(tokens) \/ DeleteUserFinish

SpecInterleaved == Init /\ [][NextInterleaved]_vars

\* ================================================================ properties
\* The request a response answers is read from the response: its operation
\* and arguments.  Caller(t) is the stored user a token names.
Callers(t) == {u \in users : u.username = t.sub}
OwnerOps == {"get_artist", "update_artist", "delete_artist", "delete_album", "delete_playlist"}
TableOf(op) ==
    IF op = "delete_album" THEN albums
    ELSE IF op = "delete_playlist" THEN playlists
    ELSE artists
NotFoundDetail(op) ==
    IF op = "delete_album" THEN "Album not found"
    ELSE IF op = "delete_playlist" THEN "Playlist not found"
    ELSE "Artist not found"

\* C1: an owner-scoped get/update/delete on a resource of another owner ends
\* in 404 with the message of a missing id, returns nothing, and leaves every
\* table as it was; an id that no row has ends the same way.
C1_OwnershipIsolation ==
    [][ (resp'.op \in OwnerOps /\ jwt_decode_ok(resp'.args.token, now)) =>
          \A me \in Callers(resp'.args.token) :
             LET hit == {r \in TableOf(resp'.op) : r.id = resp'.args.id}
             IN (\A r \in hit : r.owner_id # me.id) =>
                   /\ resp'.status = NotFound
                   /\ resp'.detail = NotFoundDetail(resp'.op)
                   /\ resp'.body = {}
                   /\ UNCHANGED storage ]_vars

C1_Witness ==
    /\ resp.op = "delete_artist"
    /\ resp.status = NotFound
    /\ \E me \in Callers(resp.args.token), a \in artists :
          a.id = resp.args.id /\ a.owner_id # me.id

\* C2: an admin route called by a resolved user whose is_admin is false ends
\* in 403 and leaves every table as it was, whatever the target id.
AdminOps == {"get_all_users", "delete_user", "get_all_artists", "admin_delete_artist",
             "promote_to_admin", "demote_from_admin"}

C2_NonAdminForbidden ==
    [][ (resp'.op \in AdminOps /\ jwt_decode_ok(resp'.args.token, now)) =>
          \A me \in Callers(resp'.args.token) :
             ~me.is_admin => (resp'.status = Forbidden /\ resp'.body = {} /\ UNCHANGED storage) ]_vars

C2_Witness ==
    /\ resp.op = "delete_user"
    /\ resp.status = Forbidden
    /\ \E me \in Callers(resp.args.token) : ~me.is_admin
    /\ \E u \in users : u.id = resp.args.id /\ u.is_admin

\* C3: a protected route called with a token that is malformed, signed with
\* another key, without subject, past its expiry, or naming a username no
\* stored user has, ends in 401 and leaves every table as it was.
ProtectedOps ==
    OwnerOps \cup AdminOps \cup
    {"create_artist", "get_artists", "create_album", "get_albums",
     "create_playlist", "get_playlists"}

Rejectable(t) ==
    \/ ~t.wf
    \/ t.key # "server-secret"
    \/ t.sub = "none"
    \/ t.exp < now
    \/ \A u \in users : u.username # t.sub

C3_ResolveGate ==
    [][ (resp'.op \in ProtectedOps /\ Rejectable(resp'.args.token)) =>
          (resp'.status = Unauthorized /\ resp'.body = {} /\ UNCHANGED storage) ]_vars

C3_Witness ==
    /\ resp.op = "promote_to_admin"
    /\ resp.status = Unauthorized
    /\ resp.args.token \in tokens
    /\ resp.args.token.exp >= now
    /\ \A u \in users : u.username # resp.args.token.sub
    /\ \E u \in users : u.id = resp.args.id /\ ~u.is_admin

\* C4: a token that login issues at time T expires at T + 30 minutes; while
\* its user exists, resolve accepts it at every time before T + 30 minutes and
\* answers 401 at every time from T + 30 minutes on.
C4_TokenLifetime ==
    [][ /\ (resp'.op = "login" /\ resp'.status = OK) =>
              (resp'.body # {} /\ \A t \in resp'.body : t.exp = now + 30)
        /\ (resp'.op \in ProtectedOps /\ resp'.args.token \in tokens
              /\ Callers(resp'.args.token) # {}) =>
              /\ (now < resp'.args.token.exp => resp'.status # Unauthorized)
              /\ (now >= resp'.args.token.exp => resp'.status = Unauthorized) ]_vars

\* C5: register ends in 400 and stores nothing whenever the username or the
\* email is taken, also when they are taken by two different users; the
\* message names the username if it is taken and the email otherwise.
C5_RegisterConflict ==
    [][ resp'.op = "register" =>
          LET nameTaken == \E x \in users : x.username = resp'.args.username
              mailTaken == \E x \in users : x.email = resp'.args.email
          IN (nameTaken \/ mailTaken) =>
                /\ resp'.status = BadRequest
                /\ users' = users
                /\ nameTaken => resp'.detail = "Username already registered"
                /\ ~nameTaken => resp'.detail = "Email already registered" ]_vars

\* C6: of two registrations of one username that both passed the lookup
\* before either committed, the second to commit stores nothing and ends in
\* 400, not in an internal error.
C6_ConcurrentRegister ==
    [][ \A r \in inflight :
          (inflight' = inflight \ {r} /\ \E x \in users : x.username = r.username) =>
             (users' = users /\ resp'.status = BadRequest) ]_vars

\* C7: no two stored users share a username and no two share an email,
\* whatever the interleaving of registrations and account changes.
C7_UniqueUsers ==
    \A x \in users, y \in users :
       x # y => (x.username # y.username /\ x.email # y.email)

C7_Witness ==
    /\ resp.op = "register"
    /\ resp.detail = "IntegrityError"
    /\ Cardinality(users) = 2
    /\ \E x \in users : x.username = resp.args.username

\* C8: register with an unused username and an unused email succeeds and
\* stores a user of that username; the login that follows with the same
\* username and password succeeds with a bearer token whose subject is that
\* username.
C8_RegisterThenLogin ==
    [][ /\ (resp'.op = "register"
              /\ \A x \in users : x.username # resp'.args.username /\ x.email # resp'.args.email) =>
              /\ resp'.status = OK
              /\ \E x \in users' \ users : x.username = resp'.args.username
        /\ (resp.op = "register" /\ resp.status = OK /\ resp'.op = "login"
              /\ resp'.args.username = resp.args.username
              /\ resp'.args.password = resp.args.password) =>
              /\ resp'.status = OK
              /\ resp'.detail = "bearer"
              /\ resp'.body # {}
              /\ \A t \in resp'.body : t.sub = resp.args.username /\ t \in tokens' ]_vars

C8_Witness ==
    /\ resp.op = "login"
    /\ resp.status = OK
    /\ \E t \in resp.body : t.sub = resp.args.username /\ t.sub # "admin"
    /\ \E x \in users : x.username = resp.args.username

C10_UniformLoginFailure ==
    [][ (resp'.op = "login"
           /\ \A x \in users : x.username = resp'.args.username =>
                 x.hashed_password # [scheme |-> "bcrypt", secret |-> resp'.args.password]) =>
          /\ resp'.status = Unauthorized
          /\ resp'.detail = "Wrong login or password"
          /\ resp'.body = {}
          /\ UNCHANGED <<users, artists, albums, playlists, tokens>> ]_vars

C10_Witness ==
    /\ resp.op = "login"
    /\ resp.status = Unauthorized
    /\ \E x \in users : x.username = resp.args.username

\* C11: promote_to_admin and demote_from_admin called by an admin end in 404
\* when no user has the id, in 400 when the user already has the requested
\* role, and otherwise in 200 with is_admin of that one user set to the
\* requested role; on 404 and 400 no user record changes, and no call touches
\* any other record.
RoleOps == {"promote_to_admin", "demote_from_admin"}

C11_PromoteDemote ==
    [][ (resp'.op \in RoleOps /\ jwt_decode_ok(resp'.args.token, now)) =>
          \A me \in Callers(resp'.args.token) :
             me.is_admin =>
                LET target == {u \in users : u.id = resp'.args.id}
                    role == (resp'.op = "promote_to_admin")
                IN /\ target = {} => (resp'.status = NotFound /\ users' = users)
                   /\ \A u \in target :
                         /\ u.is_admin = role => (resp'.status = BadRequest /\ users' = users)
                         /\ u.is_admin # role =>
                               /\ resp'.status = OK
                               /\ users' = (users \ {u}) \cup {[u EXCEPT !.is_admin = role]}
                   /\ UNCHANGED <<artists, albums, playlists, tokens>> ]_vars

C11_Witness ==
    /\ resp.op = "demote_from_admin"
    /\ resp.status = BadRequest
    /\ \E me \in Callers(resp.args.token) : me.is_admin
    /\ \E u \in users : u.id = resp.args.id /\ ~u.is_admin /\ u.username = "admin"

\* C12: is_admin of a user that exists before and after a step differs only
\* when the step is a promote_to_admin or demote_from_admin answered 200,
\* called by a user who is admin at that moment, with that user's id as
\* target; register, login, delete_user and the resource routes change the
\* is_admin of no user that stays.
C12_RoleFrame ==
    [][ \A u \in users, v \in users' :
          (u.id = v.id /\ u.is_admin # v.is_admin) =>
             /\ resp'.op \in RoleOps
             /\ resp'.status = OK
             /\ resp'.args.id = u.id
             /\ v = [u EXCEPT !.is_admin = (resp'.op = "promote_to_admin")]
             /\ \E me \in Callers(resp'.args.token) : me.is_admin ]_vars

C12_Witness ==
    /\ resp.op = "promote_to_admin"
    /\ resp.status = OK
    /\ \E u \in users : u.id = resp.args.id /\ u.is_admin /\ u.username = "alice"
    /\ \E me \in Callers(resp.args.token) : me.is_admin /\ me.id # resp.args.id
    /\ artists # {} /\ albums # {} /\ playlists # {}

\* C13: delete_user called by an admin on the id of a stored user ends in 200,
\* removes that user and every artist, album and playlist whose owner_id is
\* that id, and leaves every other user and every other row as it was; the
\* admin listing of artists that follows shows no row of that owner.  On an
\* id that no user has it ends in 404 and nothing changes.
C13_DeleteUserCascade ==
    [][ /\ (resp'.op = "delete_user" /\ jwt_decode_ok(resp'.args.token, now)) =>
              \A me \in Callers(resp'.args.token) :
                 me.is_admin =>
                    LET target == {u \in users : u.id = resp'.args.id}
                    IN /\ target = {} => (resp'.status = NotFound /\ UNCHANGED storage)
                       /\ \A u \in target :
                             /\ resp'.status = OK
                             /\ users' = users \ {u}
                             /\ artists' = {r \in artists : r.owner_id # u.id}
                             /\ albums' = {r \in albums : r.owner_id # u.id}
                             /\ playlists' = {r \in playlists : r.owner_id # u.id}
        /\ (resp.op = "delete_user" /\ resp.status = OK
              /\ resp'.op = "get_all_artists" /\ resp'.status = OK) =>
              \A r \in resp'.body : r.owner_id # resp.args.id ]_vars

C13_Witness ==
    /\ resp.op = "delete_user"
    /\ resp.status = OK
    /\ \A u \in users : u.id # resp.args.id
    /\ \E r \in artists : r.owner_id # resp.args.id
    /\ \E r \in albums : r.owner_id # resp.args.id
    /\ \E r \in playlists : r.owner_id # resp.args.id
    /\ Cardinality(artists) < MaxArtistId

\* C14: a row that appears in artists, albums or playlists appears through
\* the create route of its table, with the id of the user the request's token
\* resolves to as owner_id; a row that stays keeps its owner_id: update_artist
\* replaces name and genre by the payload's and nothing else, and no other
\* route alters a row that stays.
CreateOpOf(table) ==
    IF table = "albums" THEN "create_album"
    ELSE IF table = "playlists" THEN "create_playlist"
    ELSE "create_artist"

OwnerFrame(table, before, after) ==
    /\ \A n \in after :
          (\A r \in before : r.id # n.id) =>
             /\ resp'.op = CreateOpOf(table)
             /\ resp'.status = OK
             /\ Callers(resp'.args.token) # {}
             /\ \A me \in Callers(resp'.args.token) : n.owner_id = me.id
    /\ \A r \in before, n \in after :
          r.id = n.id =>
             /\ n.owner_id = r.owner_id
             /\ \/ n = r
                \/ /\ table = "artists"
                   /\ resp'.op = "update_artist"
                   /\ resp'.args.id = r.id
                   /\ n = [r EXCEPT !.name = resp'.args.payload.name,
                                    !.genre = resp'.args.payload.genre]

C14_OwnerFixed ==
    [][ /\ OwnerFrame("artists", artists, artists')
        /\ OwnerFrame("albums", albums, albums')
        /\ OwnerFrame("playlists", playlists, playlists') ]_vars

C14_Witness ==
    /\ resp.op = "update_artist"
    /\ resp.status = OK
    /\ \E me \in Callers(resp.args.token), a \in artists :
          /\ a.id = resp.args.id /\ a.owner_id = me.id /\ a.name = "n2"
          /\ \E b \in artists : b.owner_id # me.id
    /\ albums # {} /\ playlists # {}

\* C15 as stated: a token that login issued is accepted by get_current_user at
\* every time before its expiry, whatever happened to the account since, its
\* deletion included.
C15_NoRevocation ==
    [][ (resp'.op \in ProtectedOps /\ resp'.args.token \in tokens
           /\ now < resp'.args.token.exp) =>
          resp'.status # Unauthorized ]_vars

\* C15: a token that login issued is accepted by get_current_user at every
\* time before its expiry exactly while some stored user has the username in
\* its subject, whatever promotions and demotions happened since; once the
\* account is deleted the token is answered 401 for as long as no stored user
\* has that username.
C15_AcceptedWhileNamed ==
    [][ (resp'.op \in ProtectedOps /\ resp'.args.token \in tokens
           /\ now < resp'.args.token.exp) =>
          (resp'.status = Unauthorized <=> Callers(resp'.args.token) = {}) ]_vars

C15_Witness ==
    /\ resp.op = "get_playlists"
    /\ resp.status = OK
    /\ tokens = {resp.args.token}
    /\ now > resp.args.token.exp - 30
    /\ \E me \in Callers(resp.args.token) : me.username = "admin" /\ ~me.is_admin

\* C16: admin_delete_artist called by an admin ends in 404 exactly when no
\* artist of any owner has the id; otherwise it ends in 200 and removes that
\* one artist, whoever owns it, and nothing else in any table changes.
C16_AdminDeleteArtist ==
    [][ (resp'.op = "admin_delete_artist" /\ jwt_decode_ok(resp'.args.token, now)) =>
          \A me \in Callers(resp'.args.token) :
             me.is_admin =>
                LET hit == {a \in artists : a.id = resp'.args.id}
                IN /\ hit = {} <=> resp'.status = NotFound
                   /\ hit = {} => UNCHANGED storage
                   /\ \A a \in hit :
                         /\ resp'.status = OK
                         /\ artists' = artists \ {a}
                         /\ UNCHANGED <<users, albums, playlists, tokens>> ]_vars

C16_Witness ==
    /\ resp.op = "admin_delete_artist"
    /\ resp.status = OK
    /\ \A a \in artists : a.id # resp.args.id
    /\ \E me \in Callers(resp.args.token), a \in artists, u \in users :
          a.owner_id = me.id /\ u.id # me.id /\ ~u.is_admin

\* C17: get_artists, get_albums and get_playlists answer a stored caller,
\* admin or not, with exactly the rows whose owner_id is the caller's id;
\* get_artists called with a genre filter answers with exactly those of the
\* caller's artists whose genre equals the filter; get_all_artists and
\* get_all_users answer an admin with every stored artist and every stored
\* user.
Owned(table, me) == {r \in table : r.owner_id = me.id}

C17_Listings ==
    [][ (resp'.op \in {"get_artists", "get_albums", "get_playlists",
                       "get_all_artists", "get_all_users"}
           /\ jwt_decode_ok(resp'.args.token, now)) =>
          \A me \in Callers(resp'.args.token) :
             /\ resp'.op = "get_artists" =>
                   /\ resp'.status = OK
                   /\ resp'.body = IF resp'.args.genre = NoGenre
                                   THEN Owned(artists, me)
                                   ELSE {a \in Owned(artists, me) : a.genre = resp'.args.genre}
             /\ resp'.op = "get_albums" =>
                   (resp'.status = OK /\ resp'.body = Owned(albums, me))
             /\ resp'.op = "get_playlists" =>
                   (resp'.status = OK /\ resp'.body = Owned(playlists, me))
             /\ (resp'.op = "get_all_artists" /\ me.is_admin) =>
                   (resp'.status = OK /\ resp'.body = artists)
             /\ (resp'.op = "get_all_users" /\ me.is_admin) =>
                   /\ resp'.status = OK
                   /\ resp'.body = {[id |-> u.id, username |-> u.username, email |-> u.email,
                                     is_admin |-> u.is_admin] : u \in users} ]_vars

\* C18: an admin route called with an unexpired issued token is answered 403
\* exactly when the user stored under the token's subject has is_admin false
\* at that moment, whenever the token was issued: right after a successful
\* demote of a user, the tokens that user already holds are answered 403, and
\* right after a successful promote they pass the admin check.
C18_AdminAtRequestTime ==
    [][ (resp'.op \in AdminOps /\ resp'.args.token \in tokens
           /\ now < resp'.args.token.exp) =>
          \A me \in Callers(resp'.args.token) :
             /\ resp'.status = Forbidden <=> ~me.is_admin
             /\ resp'.status # Unauthorized
             /\ (resp.op = "demote_from_admin" /\ resp.status = OK /\ resp.args.id = me.id) =>
                   resp'.status = Forbidden
             /\ (resp.op = "promote_to_admin" /\ resp.status = OK /\ resp.args.id = me.id) =>
                   resp'.status \in {OK, BadRequest, NotFound} ]_vars

C18_Witness ==
    /\ resp.op = "get_all_users"
    /\ resp.status = Forbidden
    /\ tokens = {resp.args.token}
    /\ \E me \in Callers(resp.args.token) : me.username = "admin" /\ ~me.is_admin

\* C19: get_current_user returns whichever stored user has the username in the
\* token's subject at the moment of the request.  A token still held when its
\* username is registered anew (its first account was deleted) is accepted
\* for the new account: what it creates is owned by the new account's id, and
\* for the username "admin" it passes the admin check, for any other it does
\* not.
C19_TokenNamesUsername ==
    [][ /\ (resp'.op = "create_playlist" /\ resp'.args.token \in tokens
              /\ now < resp'.args.token.exp /\ Callers(resp'.args.token) # {}) =>
              /\ resp'.status = OK
              /\ \A me \in Callers(resp'.args.token), row \in resp'.body : row.owner_id = me.id
        /\ (resp.op = "register" /\ resp.status = OK
              /\ resp'.op \in {"create_playlist", "get_all_users"}
              /\ resp'.args.token \in tokens
              /\ resp'.args.token.sub = resp.args.username
              /\ now < resp'.args.token.exp) =>
              /\ resp'.op = "create_playlist" =>
                    /\ resp'.status = OK
                    /\ \A row \in resp'.body, account \in resp.body : row.owner_id = account.id
              /\ resp'.op = "get_all_users" =>
                    resp'.status = IF resp.args.username = "admin" THEN OK ELSE Forbidden ]_vars

C19_Witness ==
    /\ resp.op = "create_playlist"
    /\ resp.status = OK
    /\ resp.args.token.sub = "admin"
    /\ \E me \in users :
          /\ me.username = "admin"
          /\ me.hashed_password.secret = "pw2"
          /\ me.is_admin
          /\ \A row \in resp.body : row.owner_id = me.id

\* C20: demote_from_admin and delete_user take the caller's own id like any
\* other: an admin who targets themselves is demoted, or deleted, also as the
\* last admin.  Once no stored user is admin while some stored user is named
\* "admin", every request, taken one at a time, leaves it so: no user is
\* admin ever after.
NoAdminLeft ==
    /\ \A u \in users : ~u.is_admin
    /\ \E u \in users : u.username = "admin"

====
